---- MODULE Spec2Model ----
(***************************************************************************)
(* Model of the two scripts of ons-sample-rotation:                        *)
(*   preparing_sample_frame.py  (Frame Preparation pipeline)               *)
(*   sampling_code.py           (Replacement Sampling pipeline)            *)
(* A DataFrame is a record [cols, rows]: the set of its column names and   *)
(* the sequence of its rows, each row a function from column name to cell. *)
(* Cells are integers; a missing value (NaN) is NULL.                      *)
(***************************************************************************)
EXTENDS Integers, Sequences, FiniteSets, TLC

VARIABLES
    pc,               \* position of the running script's main()
    force,            \* the --force flag
    err,              \* the exception that ended the run, or "None"
    fs,               \* file system: output path -> file
    locations,        \* preparing_sample_frame.main: locations
    locations_merged, \* preparing_sample_frame.main: locations_merged
    turnover_raw,     \* the table returned by merge_turnover_outlets (argument of postproc_turnover_df)
    turnover_post,    \* the table returned by postproc_turnover_df
    turnover_merged,  \* preparing_sample_frame.main: turnover_merged after the query
    main_df,          \* sampling_code.main: df
    n_locations,      \* the --n_locations option
    regions,          \* sampling_code.main: the regions the loop has still to visit
    lst_new_locs,     \* sampling_code.main: lst_new_locs
    call,             \* the last call of generate_replacement_locations: arguments, draws, result
    df_new_locs,      \* sampling_code.main: df_new_locs
    has_args          \* whether the module global `args` is bound (the module runs as __main__)

frame_vars == <<locations, locations_merged, turnover_raw, turnover_post, turnover_merged>>

sample_vars == <<main_df, n_locations, regions, lst_new_locs, call, df_new_locs, has_args>>

vars == <<pc, force, err, fs, frame_vars, sample_vars>>

----------------------------------------------------------------------------
(* Bounds of the model *)

\* Largest number of rows of the input table of the Frame Preparation runs.
MaxRows == 2

\* Largest number of rows of the input table in the runs that vary the file system.
GuardRows == 1

----------------------------------------------------------------------------
(* Values *)

\* A missing cell (pandas NaN).
NULL == -1

\* The size threshold of the query in main.
MinOutletCt == 250

\* The Merge_Num of a donor row, excluded by the query in main.
DonorNum == 2

\* Turnover and outlet counts an input row may carry.
Turnovers == {50, 100}
OutletCts == {100, 250}

\* LocName cells are coded as integers: the name of the location with FacilityID i.
NameOf(i) == 100 + i

OutFileIDMerge == "CPI_New_Sampling_Frame_TableToExcel__ID_Merge_2022.xlsx"
OutFileTurnoverMerge == "CPI_New_Sampling_Frame_TableToExcel__Intermediate_2022.xlsx"
OutFileIntermediate2 == "CPI_New_Sampling_Frame_TableToExcel__Intermediate2_2022.xlsx"
OutFileDraft == "CPI_New_Sampling_Frame_Draft_2022.xlsx"
OutFileDuplicate1 == "2022_duplicate_1.xlsx"
OutFileDuplicate2 == "2022_duplicate_2.xlsx"

OutFiles == {OutFileIDMerge, OutFileTurnoverMerge, OutFileIntermediate2,
             OutFileDraft, OutFileDuplicate1, OutFileDuplicate2}

EmptyTable == [cols |-> {}, rows |-> <<>>]

\* No call of generate_replacement_locations yet.
NoCall == [made |-> FALSE]

\* A path with no file, and a file left by an earlier run.
Absent == [state |-> "absent", index |-> FALSE, data |-> EmptyTable]
Preexisting == [state |-> "preexisting", index |-> FALSE, data |-> EmptyTable]

----------------------------------------------------------------------------
(* DataFrame operations *)

RECURSIVE Flatten(_)
Flatten(ss) == IF ss = <<>> THEN <<>> ELSE Head(ss) \o Flatten(Tail(ss))

\* df[[c1, c2, ...]]
Project(df, C) ==
    [cols |-> C, rows |-> [i \in 1..Len(df.rows) |-> [c \in C |-> df.rows[i][c]]]]

\* df.drop(columns=C): a KeyError unless every label is a column.
CanDrop(df, C) == C \subseteq df.cols

Drop(df, C) ==
    [cols |-> df.cols \ C,
     rows |-> [i \in 1..Len(df.rows) |-> [c \in df.cols \ C |-> df.rows[i][c]]]]

Suffixed(c, overlap, suffix) == IF c \in overlap THEN c \o suffix ELSE c

\* pd.merge(left, right, how='left', left_on, right_on, suffixes=(None, suffix_y)):
\* the left rows in order, each once per right row with an equal key (NaN keys
\* are equal to each other), or once with missing right columns when none has.
Merge(left, right, left_on, right_on, suffix_y) ==
    LET overlap == left.cols \cap right.cols
        cols == left.cols \cup {Suffixed(c, overlap, suffix_y) : c \in right.cols}
        From(c) == CHOOSE k \in right.cols : Suffixed(k, overlap, suffix_y) = c
        Joined(l, r) == [c \in cols |-> IF c \in left.cols THEN l[c] ELSE r[From(c)]]
        Unmatched(l) == [c \in cols |-> IF c \in left.cols THEN l[c] ELSE NULL]
        RowsFor(l) ==
            LET Match(r) == r[right_on] = l[left_on]
                m == SelectSeq(right.rows, Match)
            IN IF m = <<>> THEN <<Unmatched(l)>>
               ELSE [j \in 1..Len(m) |-> Joined(l, m[j])]
    IN [cols |-> cols,
        rows |-> Flatten([i \in 1..Len(left.rows) |-> RowsFor(left.rows[i])])]

\* df.fillna(0)
FillNa0(df) ==
    [cols |-> df.cols,
     rows |-> [i \in 1..Len(df.rows) |->
                 [c \in df.cols |-> IF df.rows[i][c] = NULL THEN 0 ELSE df.rows[i][c]]]]

\* True division of two cells, kept as a fraction (den = 0 is pandas' inf/NaN).
TrueDiv(a, b) == [num |-> a, den |-> b]

\* df_copy[...] = ... : the three computed columns.
AddTotals(df) ==
    LET cols == df.cols \cup {"Total_TURNOV", "Total_OutletCt", "avg_TURNOV"}
        Row(r) ==
            LET tt == r["Sum_Turnov"] + r["Sum_Turnov_loc2"]
                to == r["OutletCt"] + r["OutletCt_loc2"]
            IN [c \in cols |->
                  IF c = "Total_TURNOV" THEN tt
                  ELSE IF c = "Total_OutletCt" THEN to
                  ELSE IF c = "avg_TURNOV" THEN TrueDiv(tt, to)
                  ELSE r[c]]
    IN [cols |-> cols, rows |-> [i \in 1..Len(df.rows) |-> Row(df.rows[i])]]

\* The query without its Merge_Num condition.
Query_size_only(df) ==
    LET Keep(r) == r["Total_OutletCt"] >= MinOutletCt
    IN [cols |-> df.cols, rows |-> SelectSeq(df.rows, Keep)]

\* df.query("(Total_OutletCt >= 250) & (Merge_Num != 2)")
Query(df) ==
    LET Keep(r) == (r["Total_OutletCt"] >= MinOutletCt) /\ (r["Merge_Num"] # DonorNum)
    IN [cols |-> df.cols, rows |-> SelectSeq(df.rows, Keep)]

\* df.duplicated(col): keep='first', the first occurrence not marked.
Duplicated_keep_first(df, col) ==
    [i \in 1..Len(df.rows) |->
        \E j \in 1..Len(df.rows) : j < i /\ df.rows[j][col] = df.rows[i][col]]

\* df.duplicated(col, keep=False): the boolean mask.
Duplicated(df, col) ==
    [i \in 1..Len(df.rows) |->
        \E j \in 1..Len(df.rows) : j # i /\ df.rows[j][col] = df.rows[i][col]]

RECURSIVE MaskRows(_, _, _)
MaskRows(rows, mask, i) ==
    IF i > Len(rows) THEN <<>>
    ELSE (IF mask[i] THEN <<rows[i]>> ELSE <<>>) \o MaskRows(rows, mask, i + 1)

\* df[mask]
BoolIndex(df, mask) == [cols |-> df.cols, rows |-> MaskRows(df.rows, mask, 1)]

----------------------------------------------------------------------------
(* preparing_sample_frame.py *)

\* Returns the file system after the call and the exception raised, if any.
write_df_to_excel(fsv, df, outfile, overwrite) ==
    IF fsv[outfile].state # "absent" /\ ~overwrite
    THEN [fs |-> fsv, err |-> "FileExistsError"]
    ELSE [fs |-> [fsv EXCEPT ![outfile] =
                     [state |-> "written", index |-> TRUE, data |-> df]],
          err |-> "None"]

merge_facility_ID(df, fsv, outfile, overwrite) ==
    LET merged0 == Merge(df, Project(df, {"LocName", "FacilityID", "Merge_ID"}),
                         "Merge_ID", "FacilityID", "_merge")
        merged == Drop(merged0, {"Merge_ID_merge"})
        w == write_df_to_excel(fsv, merged, outfile, overwrite)
    IN [ret |-> merged, fs |-> w.fs, err |-> w.err]

\* The second merge keyed on the row's own FacilityID.
merge_turnover_outlets_own_key(df, fsv, outfile, overwrite) ==
    LET merged0 == Merge(df, Project(df, {"FacilityID", "Sum_Turnov", "OutletCt"}),
                         "FacilityID", "FacilityID", "_loc2")
        dropped == {"Unnamed: 0", "FacilityID_loc2"}
        merged == Drop(merged0, dropped)
        w == write_df_to_excel(fsv, merged, outfile, overwrite)
    IN IF ~CanDrop(merged0, dropped)
       THEN [ret |-> merged0, fs |-> fsv, err |-> "KeyError"]
       ELSE [ret |-> merged, fs |-> w.fs, err |-> w.err]

merge_turnover_outlets(df, fsv, outfile, overwrite) ==
    LET merged0 == Merge(df, Project(df, {"FacilityID", "Sum_Turnov", "OutletCt"}),
                         "FacilityID_merge", "FacilityID", "_loc2")
        dropped == {"Unnamed: 0", "FacilityID_loc2"}
        merged == Drop(merged0, dropped)
        w == write_df_to_excel(fsv, merged, outfile, overwrite)
    IN IF ~CanDrop(merged0, dropped)
       THEN [ret |-> merged0, fs |-> fsv, err |-> "KeyError"]
       ELSE [ret |-> merged, fs |-> w.fs, err |-> w.err]

\* postproc_turnover_df without the copy: fillna and the new columns land in df.
postproc_turnover_df_in_place(df) ==
    LET df_copy == AddTotals(FillNa0(df))
    IN [arg |-> df_copy, ret |-> df_copy]

\* arg is the caller's table after the call, ret the table returned.
postproc_turnover_df(df) ==
    LET df_copy == df
    IN [arg |-> df, ret |-> AddTotals(FillNa0(df_copy))]

save_df_duplicates(df, col, fsv, outfile, overwrite) ==
    LET duplicates == Duplicated(df, col)
        w == write_df_to_excel(fsv, BoolIndex(df, duplicates), outfile, overwrite)
    IN [arg |-> df, fs |-> w.fs, err |-> w.err]

----------------------------------------------------------------------------
(* Inputs *)

\* The tables pd.read_excel may return: n rows with FacilityID 1..n, a Merge_ID
\* that is missing, names a row, or names no row (n + 1); with or without the
\* index column "Unnamed: 0" an earlier to_excel leaves.
BaseCols == {"LocName", "FacilityID", "Merge_ID", "Merge_Num", "Sum_Turnov", "OutletCt"}

RowChoices(n) ==
    [Merge_ID : {NULL} \cup (1..(n + 1)), Merge_Num : {1, 2},
     Sum_Turnov : Turnovers, OutletCt : OutletCts]

InputTable(n, f, unnamed) ==
    LET cols == IF unnamed THEN BaseCols \cup {"Unnamed: 0"} ELSE BaseCols
    IN [cols |-> cols,
        rows |-> [i \in 1..n |->
                    [c \in cols |->
                       IF c = "Unnamed: 0" THEN i - 1
                       ELSE IF c = "LocName" THEN NameOf(i)
                       ELSE IF c = "FacilityID" THEN i
                       ELSE f[i][c]]]]

----------------------------------------------------------------------------
(* preparing_sample_frame.main *)

FrameStart(fss, forces) ==
    /\ pc = "merge_facility_ID"
    /\ force \in forces
    /\ err = "None"
    /\ fs \in fss
    /\ locations_merged = EmptyTable
    /\ turnover_raw = EmptyTable
    /\ turnover_post = EmptyTable
    /\ turnover_merged = EmptyTable
    /\ main_df = EmptyTable
    /\ n_locations = 0
    /\ regions = <<>>
    /\ lst_new_locs = <<>>
    /\ call = NoCall
    /\ df_new_locs = EmptyTable
    /\ has_args = TRUE

Loaded(max) ==
    \E n \in 0..max, u \in BOOLEAN :
        \E f \in [1..n -> RowChoices(n)] : locations = InputTable(n, f, u)

\* A run in a fresh output directory.
InitFrame == FrameStart({[f \in OutFiles |-> Absent]}, {FALSE}) /\ Loaded(MaxRows)

\* A run in a directory holding any subset of the six output files.
InitGuard == FrameStart([OutFiles -> {Absent, Preexisting}], BOOLEAN) /\ Loaded(GuardRows)

\* The two-row table of the end-to-end example, with or without the index column.
ExampleRows ==
    <<[Merge_ID |-> 2, Merge_Num |-> 1, Sum_Turnov |-> 100, OutletCt |-> 300],
      [Merge_ID |-> NULL, Merge_Num |-> 2, Sum_Turnov |-> 50, OutletCt |-> 100]>>

\* A run on the example table, in a directory holding any subset of the output files.
InitExample ==
    /\ FrameStart([OutFiles -> {Absent, Preexisting}], BOOLEAN)
    /\ \E u \in BOOLEAN : locations = InputTable(Len(ExampleRows), ExampleRows, u)

Raise(e) == pc' = "raised" /\ err' = e

\* line 147
MergeFacilityID ==
    /\ pc = "merge_facility_ID"
    /\ LET r == merge_facility_ID(locations, fs, OutFileIDMerge, force)
       IN /\ fs' = r.fs
          /\ IF r.err = "None"
             THEN /\ locations_merged' = r.ret
                  /\ pc' = "merge_turnover_outlets"
                  /\ err' = err
             ELSE /\ Raise(r.err)
                  /\ UNCHANGED locations_merged
    /\ UNCHANGED <<force, locations, turnover_raw, turnover_post, turnover_merged,
                   sample_vars>>

\* line 150
MergeTurnoverOutlets ==
    /\ pc = "merge_turnover_outlets"
    /\ LET r == merge_turnover_outlets(locations_merged, fs, OutFileTurnoverMerge, force)
       IN /\ fs' = r.fs
          /\ IF r.err = "None"
             THEN /\ turnover_raw' = r.ret
                  /\ pc' = "postproc_turnover_df"
                  /\ err' = err
             ELSE /\ Raise(r.err)
                  /\ UNCHANGED turnover_raw
    /\ UNCHANGED <<force, locations, locations_merged, turnover_post, turnover_merged,
                   sample_vars>>

\* line 151
PostprocTurnover ==
    /\ pc = "postproc_turnover_df"
    /\ LET r == postproc_turnover_df(turnover_raw)
       IN /\ turnover_raw' = r.arg
          /\ turnover_post' = r.ret
    /\ pc' = "write_intermediate2"
    /\ UNCHANGED <<force, err, fs, locations, locations_merged, turnover_merged,
                   sample_vars>>

\* line 154
WriteIntermediate2 ==
    /\ pc = "write_intermediate2"
    /\ LET w == write_df_to_excel(fs, turnover_post, OutFileIntermediate2, force)
       IN /\ fs' = w.fs
          /\ IF w.err = "None"
             THEN pc' = "query" /\ err' = err
             ELSE Raise(w.err)
    /\ UNCHANGED <<force, locations, locations_merged, turnover_raw, turnover_post,
                   turnover_merged,
                   sample_vars>>

\* line 157
FilterFrame ==
    /\ pc = "query"
    /\ turnover_merged' = Query(turnover_post)
    /\ pc' = "write_draft"
    /\ UNCHANGED <<force, err, fs, locations, locations_merged, turnover_raw,
                   turnover_post,
                   sample_vars>>

\* line 158
WriteDraft ==
    /\ pc = "write_draft"
    /\ LET w == write_df_to_excel(fs, turnover_merged, OutFileDraft, force)
       IN /\ fs' = w.fs
          /\ IF w.err = "None"
             THEN pc' = "save_duplicates_1" /\ err' = err
             ELSE Raise(w.err)
    /\ UNCHANGED <<force, locations, locations_merged, turnover_raw, turnover_post,
                   turnover_merged,
                   sample_vars>>

\* line 161
SaveDuplicates1 ==
    /\ pc = "save_duplicates_1"
    /\ LET r == save_df_duplicates(turnover_merged, "Merge_ID", fs, OutFileDuplicate1, force)
       IN /\ fs' = r.fs
          /\ turnover_merged' = r.arg
          /\ IF r.err = "None"
             THEN pc' = "save_duplicates_2" /\ err' = err
             ELSE Raise(r.err)
    /\ UNCHANGED <<force, locations, locations_merged, turnover_raw, turnover_post,
                   sample_vars>>

\* line 162
SaveDuplicates2 ==
    /\ pc = "save_duplicates_2"
    /\ LET r == save_df_duplicates(turnover_merged, "FacilityID_merge", fs,
                                   OutFileDuplicate2, force)
       IN /\ fs' = r.fs
          /\ turnover_merged' = r.arg
          /\ IF r.err = "None"
             THEN pc' = "done" /\ err' = err
             ELSE Raise(r.err)
    /\ UNCHANGED <<force, locations, locations_merged, turnover_raw, turnover_post,
                   sample_vars>>

NextFrame ==
    \/ MergeFacilityID
    \/ MergeTurnoverOutlets
    \/ PostprocTurnover
    \/ WriteIntermediate2
    \/ FilterFrame
    \/ WriteDraft
    \/ SaveDuplicates1
    \/ SaveDuplicates2

SpecFrame == InitFrame /\ [][NextFrame]_vars

SpecGuard == InitGuard /\ [][NextFrame]_vars

SpecExample == InitExample /\ [][NextFrame]_vars

----------------------------------------------------------------------------
(* sampling_code.py *)

\* Largest number of rows of the table the sampling run loads.
MaxLocs == 3

\* The draws of np.random.rand are the fractions k / DrawDenom, 0 <= k < DrawDenom.
DrawDenom == 2

\* Largest --n_locations of a sampling run.
MaxN == 2

\* Largest number of rows of the table in the runs that vary the output path.
WriteLocs == 2

Regions == {"North", "South"}

\* Turnovers a row of the sampling frame may carry.
SampleTurnovers == {0, 1, 2}

\* The default --outfile.
Outfile == "Replacement locations.xlsx"

\* pathlib's suffix of the paths of the model.
SuffixOf(path) == IF path = Outfile THEN ".xlsx" ELSE ".csv"

is_file_excel(filename) == \E ext \in {".xls", ".xlsx"} : SuffixOf(filename) = ext

\* A NaN weight: 0 / 0.
IsNaN(w) == w.den = 0

\* w1 >= w2 on fractions with non-negative denominators; False on NaN, as in IEEE 754.
WeightGE(w1, w2) ==
    /\ ~IsNaN(w1)
    /\ ~IsNaN(w2)
    /\ w1.num * w2.den >= w2.num * w1.den

\* weight * rnd, the draw being k / DrawDenom.
TimesDraw(w, k) == [num |-> w.num * k, den |-> w.den * DrawDenom]

\* The arrays np.random.rand(size) may return, each draw k standing for k / DrawDenom.
\* (For size 1 the scalar returned multiplies the one weight as a 1-array does.)
get_random_float(size) == [1..size -> 0..(DrawDenom - 1)]

RECURSIVE SumCol(_, _)
SumCol(rows, col) ==
    IF rows = <<>> THEN 0 ELSE Head(rows)[col] + SumCol(Tail(rows), col)

\* df.loc[df["Region"] == region].reset_index(drop=True)
RegionRows(tbl, region) ==
    LET InRegion(r) == r["Region"] = region
    IN SelectSeq(tbl.rows, InRegion)

\* The weight column after line 88.
Weights(rows, rnd_nums) ==
    LET total_turnover == SumCol(rows, "Sum_Turnov")
    IN [i \in 1..Len(rows) |-> TimesDraw(TrueDiv(rows[i]["Sum_Turnov"], total_turnover), rnd_nums[i])]

RowOrders(n) == {p \in [1..n -> 1..n] : \A i, j \in 1..n : i # j => p[i] # p[j]}

\* The sort with ascending=True.
SortOrders_ascending(w) ==
    {p \in RowOrders(Len(w)) :
        \A a, b \in 1..Len(w) : a < b =>
            \/ ~IsNaN(w[p[a]]) /\ IsNaN(w[p[b]])
            \/ IsNaN(w[p[a]]) /\ IsNaN(w[p[b]]) /\ p[a] < p[b]
            \/ WeightGE(w[p[b]], w[p[a]])}

\* The row orders sort_values(by="weight", ascending=False) may produce: weights
\* descending, missing weights last in their original order; the default sort
\* (quicksort) fixes no order among equal weights.
SortOrders(w) ==
    {p \in RowOrders(Len(w)) :
        \A a, b \in 1..Len(w) : a < b =>
            \/ ~IsNaN(w[p[a]]) /\ IsNaN(w[p[b]])
            \/ IsNaN(w[p[a]]) /\ IsNaN(w[p[b]]) /\ p[a] < p[b]
            \/ WeightGE(w[p[a]], w[p[b]])}

\* A label slice, which includes its end: rows 0..n.
Slice_inclusive(rows, n) == SubSeq(rows, 1, IF n + 1 < Len(rows) THEN n + 1 ELSE Len(rows))

\* rows[:n] for n >= 0
Slice(rows, n) == SubSeq(rows, 1, IF n < Len(rows) THEN n ELSE Len(rows))

\* rnd_nums are the draws of get_random_float, order the row order the sort leaves.
\* arg is the caller's table after the call, ret the table returned.
generate_replacement_locations(tbl, region, n, rnd_nums, order) ==
    LET df_copy == tbl
        df_regional == RegionRows(df_copy, region)
        cols == df_copy.cols \cup {"weight"}
        w == Weights(df_regional, rnd_nums)
        weighted == [i \in 1..Len(df_regional) |->
                        [c \in cols |-> IF c = "weight" THEN w[i] ELSE df_regional[i][c]]]
        sorted == [i \in 1..Len(weighted) |-> weighted[order[i]]]
        dropped == Drop([cols |-> cols, rows |-> sorted], {"weight"})
    IN [arg |-> tbl, ret |-> [cols |-> dropped.cols, rows |-> Slice(dropped.rows, n)]]

\* Returns the file system after the call and the exception raised, if any.
write_df(fsv, tbl, out_file, overwrite, args_bound) ==
    LET made == IF fsv[out_file].state = "no_parent"
                THEN [fsv EXCEPT ![out_file] = Absent]
                ELSE fsv
    IN IF made[out_file].state # "absent" /\ ~overwrite
       THEN [fs |-> made, err |-> IF args_bound THEN "FileExistsError" ELSE "NameError"]
       ELSE [fs |-> [made EXCEPT ![out_file] =
                        [state |-> "written", index |-> FALSE, data |-> tbl]],
             err |-> "None"]

RECURSIVE Unique(_, _)
\* df["Region"].unique(): the values in order of first appearance.
Unique(rows, seen) ==
    IF rows = <<>> THEN <<>>
    ELSE IF Head(rows)["Region"] \in seen THEN Unique(Tail(rows), seen)
    ELSE <<Head(rows)["Region"]>> \o Unique(Tail(rows), seen \cup {Head(rows)["Region"]})

\* pd.concat(lst, ignore_index=True)
Concat(lst) ==
    [cols |-> UNION {lst[i].cols : i \in 1..Len(lst)},
     rows |-> Flatten([i \in 1..Len(lst) |-> lst[i].rows])]

SampleCols == {"FacilityID", "Region", "Sum_Turnov"}

SampleTable(n, f) ==
    [cols |-> SampleCols,
     rows |-> [i \in 1..n |->
                 [c \in SampleCols |-> IF c = "FacilityID" THEN i ELSE f[i][c]]]]

NoParent == [state |-> "no_parent", index |-> FALSE, data |-> EmptyTable]

\* After load_df and unique() in main (lines 164-168).
SampleStart(max, fss, forces, bound) ==
    /\ pc = "generate"
    /\ force \in forces
    /\ err = "None"
    /\ fs \in fss
    /\ has_args \in bound
    /\ n_locations \in 0..MaxN
    /\ \E n \in 0..max :
          \E f \in [1..n -> [Region : Regions, Sum_Turnov : SampleTurnovers]] :
             main_df = SampleTable(n, f)
    /\ regions = Unique(main_df.rows, {})
    /\ lst_new_locs = <<>>
    /\ call = NoCall
    /\ df_new_locs = EmptyTable
    /\ locations = EmptyTable
    /\ locations_merged = EmptyTable
    /\ turnover_raw = EmptyTable
    /\ turnover_post = EmptyTable
    /\ turnover_merged = EmptyTable

\* lines 169-170: one iteration of the loop
Generate ==
    /\ pc = "generate"
    /\ regions # <<>>
    /\ LET region == Head(regions)
           size == Len(RegionRows(main_df, region))
       IN \E rnd_nums \in get_random_float(size) :
            \E order \in SortOrders(Weights(RegionRows(main_df, region), rnd_nums)) :
               LET r == generate_replacement_locations(main_df, region, n_locations,
                                                       rnd_nums, order)
               IN /\ main_df' = r.arg
                  /\ lst_new_locs' = Append(lst_new_locs, r.ret)
                  /\ call' = [made |-> TRUE, df |-> main_df, region |-> region,
                              n_locations |-> n_locations, rnd_nums |-> rnd_nums,
                              ret |-> r.ret]
    /\ regions' = Tail(regions)
    /\ UNCHANGED <<pc, force, err, fs, n_locations, df_new_locs, has_args, frame_vars>>

\* line 171
ConcatNewLocs ==
    /\ pc = "generate"
    /\ regions = <<>>
    /\ IF lst_new_locs = <<>>
       THEN /\ Raise("ValueError")
            /\ UNCHANGED df_new_locs
       ELSE /\ df_new_locs' = Concat(lst_new_locs)
            /\ pc' = "write_df"
            /\ err' = err
    /\ UNCHANGED <<force, fs, main_df, n_locations, regions, lst_new_locs, call, has_args,
                   frame_vars>>

\* lines 173-174
WriteDf ==
    /\ pc = "write_df"
    /\ LET w == write_df(fs, df_new_locs, Outfile, force, has_args)
       IN /\ fs' = w.fs
          /\ IF w.err = "None"
             THEN pc' = "done" /\ err' = err
             ELSE Raise(w.err)
    /\ UNCHANGED <<force, sample_vars, frame_vars>>

\* The script run on a fresh output path.
InitSample == SampleStart(MaxLocs, {[f \in {Outfile} |-> Absent]}, {FALSE}, {TRUE})

\* main run as a script or called from an importing module, on any output path.
InitWrite ==
    SampleStart(WriteLocs, [{Outfile} -> {NoParent, Absent, Preexisting}], BOOLEAN, BOOLEAN)

NextSample ==
    \/ Generate
    \/ ConcatNewLocs
    \/ WriteDf

SpecSample == InitSample /\ [][NextSample]_vars

SpecWrite == InitWrite /\ [][NextSample]_vars

----------------------------------------------------------------------------
(* Properties of the Frame Preparation pipeline *)

RowSet(tbl) == {tbl.rows[i] : i \in 1..Len(tbl.rows)}

\* The row of the loaded table with the FacilityID of row r.
InputRow(r) ==
    CHOOSE d \in RowSet(locations) : d["FacilityID"] = r["FacilityID"]

\* main has passed line 150 / line 151 / line 157.
TurnoverMergeDone == turnover_raw.cols # {}
PostprocDone == turnover_post.cols # {}
QueryDone == turnover_merged.cols # {}

RunEnded == pc \in {"done", "raised"}

\* C1. Join correctness: after merge_facility_ID and merge_turnover_outlets every
\* loaded row has a merged row; a merged row whose Merge_ID is the FacilityID of a
\* loaded row carries that row's FacilityID, Sum_Turnov and OutletCt in
\* FacilityID_merge, Sum_Turnov_loc2 and OutletCt_loc2; a merged row whose
\* Merge_ID is no row's FacilityID has the three columns missing.
JoinCorrectness ==
    TurnoverMergeDone =>
        /\ \A d \in RowSet(locations) :
              \E r \in RowSet(turnover_raw) : r["FacilityID"] = d["FacilityID"]
        /\ \A r \in RowSet(turnover_raw) :
              LET donors == {d \in RowSet(locations) : d["FacilityID"] = r["Merge_ID"]}
              IN IF donors # {}
                 THEN \A d \in donors :
                         /\ r["FacilityID_merge"] = d["FacilityID"]
                         /\ r["Sum_Turnov_loc2"] = d["Sum_Turnov"]
                         /\ r["OutletCt_loc2"] = d["OutletCt"]
                 ELSE /\ r["FacilityID_merge"] = NULL
                      /\ r["Sum_Turnov_loc2"] = NULL
                      /\ r["OutletCt_loc2"] = NULL

\* Both merges ran on a table with a row that has a donor other than itself and a
\* row that has none.
JoinWitness ==
    /\ TurnoverMergeDone
    /\ \E r \in RowSet(turnover_raw) :
          r["FacilityID_merge"] \notin {NULL, r["FacilityID"]} /\ r["Sum_Turnov_loc2"] # NULL
    /\ \E r \in RowSet(turnover_raw) :
          r["Merge_ID"] # NULL /\ r["FacilityID_merge"] = NULL

ZeroIfNull(x) == IF x = NULL THEN 0 ELSE x

\* C8. Aggregation identity: every row postproc_turnover_df returns has
\* Total_TURNOV = Sum_Turnov + Sum_Turnov_loc2 and Total_OutletCt = OutletCt +
\* OutletCt_loc2 of the row passed in, a missing operand counting 0; the table
\* passed in is still the table merge_turnover_outlets wrote to its file.
AggregationIdentity ==
    PostprocDone =>
        /\ Len(turnover_post.rows) = Len(turnover_raw.rows)
        /\ \A i \in 1..Len(turnover_post.rows) :
              LET r == turnover_post.rows[i]
                  a == turnover_raw.rows[i]
              IN /\ r["Total_TURNOV"] =
                       ZeroIfNull(a["Sum_Turnov"]) + ZeroIfNull(a["Sum_Turnov_loc2"])
                 /\ r["Total_OutletCt"] =
                       ZeroIfNull(a["OutletCt"]) + ZeroIfNull(a["OutletCt_loc2"])
                 /\ r["Total_TURNOV"] = r["Sum_Turnov"] + r["Sum_Turnov_loc2"]
                 /\ r["Total_OutletCt"] = r["OutletCt"] + r["OutletCt_loc2"]
        /\ turnover_raw = fs[OutFileTurnoverMerge].data

\* postproc_turnover_df ran on a table with a row whose donor values are missing
\* and a row whose donor values are present.
AggregationWitness ==
    /\ PostprocDone
    /\ \E i \in 1..Len(turnover_post.rows) :
          /\ turnover_raw.rows[i]["Sum_Turnov_loc2"] = NULL
          /\ turnover_post.rows[i]["Total_TURNOV"] = turnover_raw.rows[i]["Sum_Turnov"]
    /\ \E i \in 1..Len(turnover_post.rows) :
          /\ turnover_raw.rows[i]["Sum_Turnov_loc2"] # NULL
          /\ turnover_post.rows[i]["Total_TURNOV"] > turnover_raw.rows[i]["Sum_Turnov"]

\* C5. Filter correctness: a row of the postprocessed table is in the filtered table
\* iff its Total_OutletCt >= 250 and its Merge_Num # 2; the filtered table has no
\* other row, no row twice, and its rows stand in the order of the postprocessed table.
FilterCorrectness ==
    QueryDone =>
        /\ \A r \in RowSet(turnover_post) :
              (r \in RowSet(turnover_merged))
                 <=> (r["Total_OutletCt"] >= 250 /\ r["Merge_Num"] # 2)
        /\ RowSet(turnover_merged) \subseteq RowSet(turnover_post)
        /\ \A a, b \in 1..Len(turnover_merged.rows) :
              a < b =>
                 \E i, j \in 1..Len(turnover_post.rows) :
                    /\ i < j
                    /\ turnover_post.rows[i] = turnover_merged.rows[a]
                    /\ turnover_post.rows[j] = turnover_merged.rows[b]

\* The query kept a row with exactly 250 outlets and removed both a donor row with
\* at least 250 outlets and a row with fewer than 250.
FilterWitness ==
    /\ QueryDone
    /\ \E r \in RowSet(turnover_merged) : r["Total_OutletCt"] = 250
    /\ \/ \E r \in RowSet(turnover_post) \ RowSet(turnover_merged) :
             r["Total_OutletCt"] >= 250 /\ r["Merge_Num"] = 2
       \/ \E r \in RowSet(turnover_post) \ RowSet(turnover_merged) :
             r["Total_OutletCt"] < 250 /\ r["Merge_Num"] # 2

\* The file written for column col holds the rows of the filtered table whose
\* value of col another row shares, and the table passed is still the draft written.
DuplicatesOf(file, col) ==
    fs[file].state = "written" =>
        /\ \A i \in 1..Len(turnover_merged.rows) :
              (turnover_merged.rows[i] \in RowSet(fs[file].data))
                 <=> \E j \in 1..Len(turnover_merged.rows) :
                        j # i /\ turnover_merged.rows[j][col] = turnover_merged.rows[i][col]
        /\ RowSet(fs[file].data) \subseteq RowSet(turnover_merged)
        /\ turnover_merged = fs[OutFileDraft].data

\* C6. Duplicate detection completeness: the file save_df_duplicates writes for
\* column C holds a row of the table iff another row of the table has the same
\* value of C, it holds no other row, and the table passed is unchanged (it is
\* still the table written to the draft file).
DuplicateDetection ==
    /\ DuplicatesOf(OutFileDuplicate1, "Merge_ID")
    /\ DuplicatesOf(OutFileDuplicate2, "FacilityID_merge")

\* Both duplicate files are written and the first holds rows that share a Merge_ID.
DuplicateWitness ==
    /\ pc = "done"
    /\ Len(fs[OutFileDuplicate1].data.rows) >= 2
    /\ Len(fs[OutFileDuplicate2].data.rows) >= 2

\* C9. Every row written to 2022_duplicate_1.xlsx and 2022_duplicate_2.xlsx is a
\* row of the filtered frame whose donor (the Merge_ID it was loaded with) is named
\* by two or more rows of the filtered frame; a row loaded with no Merge_ID is in
\* neither file.
DuplicatesShareDonor ==
    \A file \in {OutFileDuplicate1, OutFileDuplicate2} :
        fs[file].state = "written" =>
            \A r \in RowSet(fs[file].data) :
                /\ r \in RowSet(turnover_merged)
                /\ InputRow(r)["Merge_ID"] # NULL
                /\ \E q \in RowSet(turnover_merged) :
                      /\ q["FacilityID"] # r["FacilityID"]
                      /\ InputRow(q)["Merge_ID"] = InputRow(r)["Merge_ID"]

\* C7. End-to-end example: the run on the example table, unless the overwrite
\* guard stops it, completes, and its final frame is the single row FacilityID = 1
\* with Total_TURNOV = 150, Total_OutletCt = 400 and avg_TURNOV = 0.375.
EndToEndExample ==
    (RunEnded /\ err # "FileExistsError") =>
        /\ pc = "done"
        /\ Len(turnover_merged.rows) = 1
        /\ LET r == turnover_merged.rows[1]
           IN /\ r["FacilityID"] = 1
              /\ r["Total_TURNOV"] = 150
              /\ r["Total_OutletCt"] = 400
              /\ r["avg_TURNOV"].num * 1000 = 375 * r["avg_TURNOV"].den

\* The same with the index column "Unnamed: 0" in the loaded table.
EndToEndExampleIndexed ==
    "Unnamed: 0" \in locations.cols => EndToEndExample

\* C3. Run-level guard: a run without --force in a directory that holds one of the
\* six output files does not complete: it ends in a FileExistsError. (Without
\* --force a file left by an earlier run is never replaced: NoOverwriteWithoutForce,
\* so the files left at the end are the files the run started with.)
RunLevelGuard ==
    (RunEnded /\ ~force /\ \E f \in OutFiles : fs[f].state = "preexisting") =>
        /\ pc = "raised"
        /\ err = "FileExistsError"

\* The existence check comes before the write: a step of a run without --force
\* leaves every existing file as it is.
NoOverwriteWithoutForce ==
    [][~force => \A f \in OutFiles : fs[f].state # "absent" => fs'[f] = fs[f]]_vars

\* write_df_to_excel alone: with overwrite disabled an existing file stops the run
\* with a FileExistsError; with it enabled every file the run reached is replaced.
ExcelOverwriteGuard ==
    /\ (RunEnded /\ err \notin {"None", "KeyError"}) =>
          (err = "FileExistsError" /\ ~force)
    /\ (pc = "done" /\ force) => \A f \in OutFiles : fs[f].state = "written"

----------------------------------------------------------------------------
(* Properties of the Replacement Sampling pipeline *)

\* The candidate rows of the last call, in the order of the table passed.
Candidates == RegionRows(call.df, call.region)

\* The position among the candidates of the row with the FacilityID of r.
CandidateOf(r) ==
    CHOOSE i \in 1..Len(Candidates) : Candidates[i]["FacilityID"] = r["FacilityID"]

Returned == {CandidateOf(call.ret.rows[a]) : a \in 1..Len(call.ret.rows)}

RegionalTurnover == SumCol(Candidates, "Sum_Turnov")

\* C4. Sampling count bound: a call for a region with R candidate rows and a
\* requested N returns min(N, R) rows, each of the requested region, no two with
\* the same FacilityID.
SamplingCountBound ==
    call.made =>
        LET R == Cardinality({i \in 1..Len(call.df.rows) :
                                 call.df.rows[i]["Region"] = call.region})
            N == call.n_locations
        IN /\ Len(call.ret.rows) = IF N < R THEN N ELSE R
           /\ \A a \in 1..Len(call.ret.rows) : call.ret.rows[a]["Region"] = call.region
           /\ \A a, b \in 1..Len(call.ret.rows) :
                 a # b => call.ret.rows[a]["FacilityID"] # call.ret.rows[b]["FacilityID"]

\* A call that returns fewer rows than the region has, and more than one.
SamplingCountWitness ==
    /\ call.made
    /\ Len(call.ret.rows) = call.n_locations
    /\ Len(call.ret.rows) >= 2
    /\ Len(Candidates) > call.n_locations

\* The weight of candidate i as the claim states it:
\* (Sum_Turnov / regional sum of Sum_Turnov) * draw, the draw being rnd_nums[i] / DrawDenom.
StatedWeight(i) ==
    [num |-> Candidates[i]["Sum_Turnov"] * call.rnd_nums[i],
     den |-> RegionalTurnover * DrawDenom]

TopNOfCall ==
    /\ \A a, b \in 1..Len(call.ret.rows) :
          a < b => WeightGE(StatedWeight(CandidateOf(call.ret.rows[a])),
                            StatedWeight(CandidateOf(call.ret.rows[b])))
    /\ \A i \in Returned :
          \A j \in (1..Len(Candidates)) \ Returned :
             WeightGE(StatedWeight(i), StatedWeight(j))
    /\ "weight" \notin call.ret.cols
    /\ \A a \in 1..Len(call.ret.rows) : "weight" \notin DOMAIN call.ret.rows[a]
    /\ main_df = call.df

\* C10 as stated. Top-N by randomized weight: for any region and any draws the
\* rows returned are in descending order of weight, every returned row weighs at
\* least as much as every candidate not returned, the result has no weight column
\* and the table passed is unchanged.
TopNByWeight == call.made => TopNOfCall

\* C10 as amended: the same for a region whose Sum_Turnov do not sum to zero.
TopNByWeightDefined == (call.made /\ RegionalTurnover # 0) => TopNOfCall

\* A call that left a candidate out although its turnover is larger than that of a
\* row it returned.
TopNWitness ==
    /\ call.made
    /\ RegionalTurnover # 0
    /\ \E i \in Returned :
          \E j \in (1..Len(Candidates)) \ Returned :
             Candidates[j]["Sum_Turnov"] > Candidates[i]["Sum_Turnov"]

\* main has reached write_df and the run is over.
WriteReached == RunEnded /\ err # "ValueError"

\* C2. Overwrite guard of write_df: a write to an existing path with overwrite
\* disabled fails with a FileExistsError and leaves the file as it was; with
\* overwrite enabled the write succeeds and the file holds the new table.
OverwriteGuard ==
    WriteReached =>
        /\ (~force /\ fs[Outfile].state = "preexisting") =>
              (pc = "raised" /\ err = "FileExistsError")
        /\ force =>
              /\ pc = "done"
              /\ fs[Outfile].state = "written"
              /\ fs[Outfile].data = df_new_locs

\* The same of every failure but its exception type: a write to an existing path
\* with overwrite disabled raises and leaves the file as it was.
OverwriteGuardAnyError ==
    WriteReached =>
        /\ (~force /\ fs[Outfile].state = "preexisting") => pc = "raised"
        /\ pc = "raised" => (~force /\ fs[Outfile] = Preexisting)
        /\ force =>
              /\ pc = "done"
              /\ fs[Outfile].state = "written"
              /\ fs[Outfile].data = df_new_locs

====
